---- MODULE Spec2Model ----
(***************************************************************************)
(* A model of poker_backend.py: the card and deck classes, the hand        *)
(* evaluator, the players, the Game engine (hand loop, betting round,      *)
(* action resolution, payout) and the two socket handlers.                 *)
(*                                                                         *)
(* A card is the integer 13*s + r, s the index of its suit in SUITS and r  *)
(* the index of its rank in RANKS: the position of Card(s, r) in the list  *)
(* that Deck.__init__ builds before it shuffles.                           *)
(***************************************************************************)
EXTENDS Integers, Sequences, FiniteSets, TLC

\* ------------------------------------------------------------------------
\* Cards
\* ------------------------------------------------------------------------
SUITS == 0..3

RANKS == 0..12

Card(s, r) == 13 * s + r

CardSuit(c) == c \div 13

\* RANK_VALUES: '2' -> 2 ... 'A' -> 14
CardValue(c) == (c % 13) + 2

HAND_NAMES == [r \in 1..10 |->
                 CASE r = 10 -> "Royal Flush" [] r = 9 -> "Straight Flush"
                   [] r = 8 -> "Four of a Kind" [] r = 7 -> "Full House"
                   [] r = 6 -> "Flush" [] r = 5 -> "Straight"
                   [] r = 4 -> "Three of a Kind" [] r = 3 -> "Two Pair"
                   [] r = 2 -> "One Pair" [] OTHER -> "High Card"]

\* the unshuffled list of Deck.__init__: every suit in turn, ranks ascending
NewDeckCards == [i \in 1..52 |-> i - 1]

\* ------------------------------------------------------------------------
\* Sequences helpers (Python list operations)
\* ------------------------------------------------------------------------
RECURSIVE SumSeq(_)
SumSeq(s) == IF s = <<>> THEN 0 ELSE Head(s) + SumSeq(Tail(s))

RECURSIVE SelectIdx(_, _, _)
\* the indices i >= from of s, ascending, at which the boolean s[i] is TRUE
SelectIdx(s, from, n) ==
    IF from > n THEN <<>>
    ELSE IF s[from] THEN <<from>> \o SelectIdx(s, from + 1, n)
         ELSE SelectIdx(s, from + 1, n)

Range(s) == {s[i] : i \in 1..Len(s)}

Min2(a, b) == IF a < b THEN a ELSE b

Max2(a, b) == IF a > b THEN a ELSE b

\* list.sort / sorted are stable, also with reverse=True: elements of equal
\* key keep their original order.  A pair is <<key, card>>.
RECURSIVE InsertDesc(_, _)
InsertDesc(p, s) ==
    IF s = <<>> THEN <<p>>
    ELSE IF Head(s)[1] >= p[1] THEN <<Head(s)>> \o InsertDesc(p, Tail(s))
         ELSE <<p>> \o s

RECURSIVE InsertAsc(_, _)
InsertAsc(p, s) ==
    IF s = <<>> THEN <<p>>
    ELSE IF Head(s)[1] <= p[1] THEN <<Head(s)>> \o InsertAsc(p, Tail(s))
         ELSE <<p>> \o s

RECURSIVE SortPairs(_, _, _)
SortPairs(ps, acc, reverse) ==
    IF ps = <<>> THEN acc
    ELSE SortPairs(Tail(ps),
                   IF reverse THEN InsertDesc(Head(ps), acc)
                              ELSE InsertAsc(Head(ps), acc),
                   reverse)

\* sorted(hand, key=..., reverse=...) with keys[i] the key of hand[i]
SortedByKey(hand, keys, reverse) ==
    LET ps == [i \in 1..Len(hand) |-> <<keys[i], hand[i]>>]
        out == SortPairs(ps, <<>>, reverse)
    IN  [i \in 1..Len(hand) |-> out[i][2]]

\* a Python key tuple (bool, value) as one integer, ordered the same way
BoolKey(b, v) == (IF b THEN 100 ELSE 0) + v

\* ------------------------------------------------------------------------
\* Hand evaluation
\* ------------------------------------------------------------------------
WheelValues == {14, 2, 3, 4, 5}

\* Counter(ranks): count of each rank, and the ranks in first-seen order
CountOf(values, v) == Cardinality({i \in 1..Len(values) : values[i] = v})

\* [r for r, c in counts.items() if c == n], in Counter insertion order
RanksWithCount(values, n) ==
    LET first(i) == \A j \in 1..(i - 1) : values[j] # values[i]
        keep == [i \in 1..Len(values) |-> first(i) /\ CountOf(values, values[i]) = n]
        idx == SelectIdx(keep, 1, Len(values))
    IN  [k \in 1..Len(idx) |-> values[idx[k]]]

\* sorted(counts.values(), reverse=True)
CountsVals(values) ==
    LET first(i) == \A j \in 1..(i - 1) : values[j] # values[i]
        keep == [i \in 1..Len(values) |-> first(i)]
        idx == SelectIdx(keep, 1, Len(values))
        cs == [k \in 1..Len(idx) |-> CountOf(values, values[idx[k]])]
    IN  SortedByKey(cs, cs, TRUE)

\* values = [c.value for c in hand]
HandValues(hand) == [i \in 1..5 |-> CardValue(hand[i])]

\* is_flush = len(set(suits)) == 1
IsFlush(hand) == Cardinality({CardSuit(hand[i]) : i \in 1..5}) = 1

\* set(ranks) == {'A', '2', '3', '4', '5'}
IsWheel(values) == Range(values) = WheelValues

IsStraight(values) ==
    (\A i \in 1..4 : values[i] - 1 = values[i + 1]) \/ IsWheel(values)

\* the wheel is put in the order of sorted(hand, key=(value != 14, value))
WheelOrder(hand, values) ==
    IF IsStraight(values) /\ IsWheel(values)
    THEN SortedByKey(hand, [i \in 1..5 |-> BoolKey(values[i] # 14, values[i])],
                     FALSE)
    ELSE hand

\* sorted(hand, key=lambda c: (c.rank not in rs, c.value), reverse=True)
Regroup(hand, rs) ==
    SortedByKey(hand,
                [i \in 1..5 |-> BoolKey(CardValue(hand[i]) \notin rs,
                                        CardValue(hand[i]))],
                TRUE)

\* the returns of _calculate_hand_rank, in their order; values are those of
\* the hand sorted by value, hand is that hand after the wheel reordering
RankOf(hand, values, is_flush, is_straight, counts_vals) ==
    IF is_straight /\ is_flush THEN <<IF values[1] = 14 THEN 10 ELSE 9, hand>>
    ELSE IF counts_vals[1] = 4
    THEN <<8, Regroup(hand, {RanksWithCount(values, 4)[1]})>>
    ELSE IF counts_vals = <<3, 2>> THEN <<7, hand>>
    ELSE IF is_flush THEN <<6, hand>>
    ELSE IF is_straight THEN <<5, hand>>
    ELSE IF counts_vals[1] = 3
    THEN <<4, Regroup(hand, {RanksWithCount(values, 3)[1]})>>
    ELSE IF counts_vals = <<2, 2, 1>>
    THEN <<3, Regroup(hand, Range(RanksWithCount(values, 2)))>>
    ELSE IF counts_vals[1] = 2
    THEN <<2, Regroup(hand, {RanksWithCount(values, 2)[1]})>>
    ELSE <<1, hand>>

\* _calculate_hand_rank after hand.sort(key=value, reverse=True)
RankSorted(hand, values) ==
    RankOf(WheelOrder(hand, values), values, IsFlush(hand), IsStraight(values),
           CountsVals(values))

\* hand.sort(key=lambda card: card.value, reverse=True)
SortByValue(hand0) ==
    SortedByKey(hand0, [i \in 1..5 |-> CardValue(hand0[i])], TRUE)

\* (rank, hand)
_calculate_hand_rank(hand0) ==
    RankSorted(SortByValue(hand0), HandValues(SortByValue(hand0)))

RECURSIVE CompareFrom(_, _, _)
CompareFrom(hand1, hand2, i) ==
    IF i > Len(hand1) \/ i > Len(hand2) THEN 0
    ELSE IF CardValue(hand1[i]) > CardValue(hand2[i]) THEN 1
    ELSE IF CardValue(hand1[i]) < CardValue(hand2[i]) THEN -1
    ELSE CompareFrom(hand1, hand2, i + 1)

_compare_hands(hand1, hand2) == CompareFrom(hand1, hand2, 1)

RECURSIVE Combinations(_, _, _)
\* itertools.combinations over the indices lo..n, k at a time, in its order
Combinations(lo, n, k) ==
    IF k = 0 THEN << <<>> >>
    ELSE IF lo > n - k + 1 THEN <<>>
    ELSE LET rest == Combinations(lo + 1, n, k - 1)
         IN  [j \in 1..Len(rest) |-> <<lo>> \o rest[j]] \o Combinations(lo + 1, n, k)

\* one pass of the loop of evaluate_hand: the new (best_rank, best_hand_cards)
Better(r, best) ==
    IF r[1] > best[1] THEN r
    ELSE IF r[1] = best[1] /\ _compare_hands(r[2], best[2]) > 0
    THEN <<best[1], r[2]>>
    ELSE best

RECURSIVE BestOf(_, _, _, _)
\* the loop of evaluate_hand over the combinations from the i-th on
BestOf(hand, combos, i, best) ==
    IF i > Len(combos) THEN best
    ELSE BestOf(hand, combos, i + 1,
                Better(_calculate_hand_rank([j \in 1..5 |-> hand[combos[i][j]]]),
                       best))

\* (best_rank, best_hand_cards); the name is HAND_NAMES[best_rank]
evaluate_hand(hand) ==
    BestOf(hand, Combinations(1, Len(hand), 5), 1, <<-1, <<>>>>)

\* ------------------------------------------------------------------------
\* Program constants and the bounds of the model
\* ------------------------------------------------------------------------
\* Game.__init__
small_blind == 10

big_blind == 20

\* handle_connect: the stack of every seat it creates
StartChips == 1000

\* Game.add_player: the seat cap
MaxSeats == 4

\* the hand loop is followed for this many hands
MaxHands == 2

\* the shuffles that are followed: Shuffle(1) .. Shuffle(NumShuffles)
NumShuffles == 2

\* the player_action messages that the engine accepts are followed up to this
\* many; after them the client goes silent (messages that are discarded are
\* not counted)
MaxAnswers == 3

\* the amounts a player_action message carries: one below zero, zero, and an
\* odd raise that leaves fifteen chips of a fresh stack behind
Amounts == {-5000, 0, 985}

\* The cards a shuffle leaves on top of the deck, first dealt first.  With
\* four seats: the first hole card of seats 0..3, their second hole card, a
\* burn and the flop, a burn and the turn, a burn and the river.
\*   1: seat 1 holds A-K, seat 2 a pair of nines that makes trips on the flop
\*   2: seats 1 and 2 both hold A-Q and tie with the board, seat 3 holds 7-2
Tops == << <<23, 12, 20, 44, 22, 11, 33, 26, 0, 24, 7, 41, 1, 29, 2, 45>>,
           <<40, 12, 38, 18, 32, 23, 49, 39, 0, 9, 33, 15, 1, 43, 2, 34>> >>

Top(k) == IF k \in 1..Len(Tops) THEN Tops[k] ELSE <<>>

RECURSIVE Reverse(_)
Reverse(s) == IF s = <<>> THEN <<>> ELSE Reverse(Tail(s)) \o <<Head(s)>>

\* one outcome of random.shuffle: the list whose pops yield Top(k) and then
\* the remaining cards from the end of the unshuffled list
Shuffle(k) ==
    LET top == Top(k)
        keep == [i \in 1..52 |-> NewDeckCards[i] \notin Range(top)]
        idx == SelectIdx(keep, 1, 52)
    IN  [i \in 1..Len(idx) |-> NewDeckCards[idx[i]]] \o Reverse(top)

Shuffles == {Shuffle(k) : k \in 1..NumShuffles}

\* the payloads of the player_action messages that are followed
Messages ==
    {[action |-> a, amount |-> 0] : a \in {"fold", "check", "call"}}
    \cup {[action |-> a, amount |-> m] : a \in {"bet", "raise"}, m \in Amounts}

\* ------------------------------------------------------------------------
\* State
\* ------------------------------------------------------------------------
VARIABLES
    players,               \* Game.players: the list of Player objects
    deck,                  \* Game.deck.cards
    community_cards,       \* Game.community_cards
    pot,                   \* Game.pot
    dealer_pos,            \* Game.dealer_pos
    current_player_index,  \* Game.current_player_index
    current_bet,           \* Game.current_bet
    last_raise,            \* Game.last_raise
    stage,                 \* Game.stage
    is_running,            \* Game.is_running
    pc,                    \* where the background task of Game.run stands
    stage_name,            \* betting_round: its argument
    action_starter_index,  \* betting_round: its local
    players_in_hand,       \* betting_round: its local, as seat indices
    action_result,         \* betting_round: is_raise of the last action
    hands,                 \* the number of hands play_hand has started
    answers,               \* the number of messages on_player_action accepted
    scan,                  \* a call of get_next_active_player that is followed
    ranked,                \* a call of _calculate_hand_rank on two hands that is followed
    emitted                \* the game_state_update and your_turn messages of the last step

vars == <<players, deck, community_cards, pot, dealer_pos,
          current_player_index, current_bet, last_raise, stage, is_running,
          pc, stage_name, action_starter_index, players_in_hand,
          action_result, hands, answers, scan, ranked, emitted>>

\* Deck.deal of an empty deck
None == -1

\* Player.event: <<>> while the attribute does not exist, <<"waiting">> for
\* an Event nobody has sent to, <<"sent", data>> once it is ready
NoEvent == <<>>

WaitingEvent == <<"waiting">>

SentEvent(data) == <<"sent", data>>

\* Player.__init__
Player(name, chips, is_bot) ==
    [name |-> name, chips |-> chips, is_bot |-> is_bot, hand |-> <<>>,
     bet |-> 0, in_hand |-> TRUE, is_all_in |-> FALSE, status |-> "",
     event |-> NoEvent]

reset_for_hand(p) ==
    [p EXCEPT !.hand = <<>>, !.bet = 0, !.in_hand = TRUE,
              !.is_all_in = FALSE, !.status = ""]

\* seat indices are those of the Python list: 0 .. len - 1
Seats(ps) == 0..(Len(ps) - 1)

At(ps, i) == ps[i + 1]

\* a get_next_active_player that forgets the all-in test
Eligible_in_hand_only(p) == p.in_hand

Eligible(p) == p.in_hand /\ ~p.is_all_in

InHandSeats(ps) == {i \in Seats(ps) : At(ps, i).in_hand}

\* [p for p in ps if Keep(p)], Keep given as the sequence of its values
Filter(ps, keep) ==
    LET idx == SelectIdx(keep, 1, Len(ps))
    IN  [k \in 1..Len(idx) |-> ps[idx[k]]]

RECURSIVE ScanFrom(_, _, _, _)
\* the for loop of get_next_active_player after done iterations, i the seat
\* it looked at last: <<the seat returned, the iterations run>>
ScanFrom(ps, i, done, start_index) ==
    IF done = Len(ps) + 1 THEN <<start_index, done>>
    ELSE LET j == (i + 1) % Len(ps)
         IN  IF Eligible(At(ps, j)) THEN <<j, done + 1>>
             ELSE ScanFrom(ps, j, done + 1, start_index)

get_next_active_player(ps, start_index) ==
    ScanFrom(ps, start_index, 0, start_index)[1]

\* Deck.deal: <<card, remaining cards>>
\* a deal that returns the last card and leaves it in the deck
deal_without_pop(cards) ==
    IF cards # <<>> THEN <<cards[Len(cards)], cards>> ELSE <<None, cards>>

deal(cards) ==
    IF cards # <<>> THEN <<cards[Len(cards)], SubSeq(cards, 1, Len(cards) - 1)>>
    ELSE <<None, cards>>

add_player(ps, name, chips, is_bot) ==
    IF Len(ps) < MaxSeats THEN Append(ps, Player(name, chips, is_bot)) ELSE ps

\* a post_blinds that sets the level of the round to the small blind
post_blinds_level_small_blind(ps, dp) ==
    LET sb_pos == get_next_active_player(ps, dp)
        bb_pos == get_next_active_player(ps, get_next_active_player(ps, dp))
        sb_amount == Min2(small_blind, At(ps, sb_pos).chips)
        ps1 == [ps EXCEPT ![sb_pos + 1].chips = @ - sb_amount,
                          ![sb_pos + 1].bet = sb_amount]
        bb_amount == Min2(big_blind, At(ps1, bb_pos).chips)
        ps2 == [ps1 EXCEPT ![bb_pos + 1].chips = @ - bb_amount,
                           ![bb_pos + 1].bet = bb_amount]
    IN  [players |-> ps2, current_bet |-> small_blind, last_raise |-> big_blind,
         current_player_index |-> get_next_active_player(ps2, bb_pos)]

post_blinds(ps, dp) ==
    LET sb_pos == get_next_active_player(ps, dp)
        bb_pos == get_next_active_player(ps, get_next_active_player(ps, dp))
        sb_amount == Min2(small_blind, At(ps, sb_pos).chips)
        ps1 == [ps EXCEPT ![sb_pos + 1].chips = @ - sb_amount,
                          ![sb_pos + 1].bet = sb_amount]
        bb_amount == Min2(big_blind, At(ps1, bb_pos).chips)
        ps2 == [ps1 EXCEPT ![bb_pos + 1].chips = @ - bb_amount,
                           ![bb_pos + 1].bet = bb_amount]
    IN  [players |-> ps2, current_bet |-> big_blind, last_raise |-> big_blind,
         current_player_index |-> get_next_active_player(ps2, bb_pos)]

RECURSIVE DealRound(_, _, _)
\* one pass of the inner loop of deal_hole_cards, from seat i on
DealRound(ps, cards, i) ==
    IF i >= Len(ps) THEN <<ps, cards>>
    ELSE IF At(ps, i).in_hand
         THEN LET d == deal(cards)
              IN  DealRound([ps EXCEPT ![i + 1].hand = Append(@, d[1])], d[2], i + 1)
         ELSE DealRound(ps, cards, i + 1)

deal_hole_cards(ps, cards) ==
    LET r1 == DealRound(ps, cards, 0)
    IN  DealRound(r1[1], r1[2], 0)

RECURSIVE DealCommunity(_, _, _)
\* [community_cards.append(deck.deal()) for _ in range(n)]
DealCommunity(cc, cards, n) ==
    IF n = 0 THEN <<cc, cards>>
    ELSE LET d == deal(cards)
         IN  DealCommunity(Append(cc, d[1]), d[2], n - 1)

\* a collect_bets that passes over the seats that folded
collect_bets_pot_in_hand_only(ps, p) ==
    p + SumSeq([i \in 1..Len(ps) |-> IF ps[i].in_hand THEN ps[i].bet ELSE 0])

collect_bets_pot(ps, p) == p + SumSeq([i \in 1..Len(ps) |-> ps[i].bet])

collect_bets_players(ps) == [i \in 1..Len(ps) |-> [ps[i] EXCEPT !.bet = 0]]

\* int(x * 0.75): Python truncates towards zero
IntThreeQuarters(x) ==
    IF x >= 0 THEN (3 * x) \div 4 ELSE -((3 * (-x)) \div 4)

\* handle_player_action: the new players, current_bet, last_raise, is_raise
handle_player_action(ps, p_idx, data, cb, lr) ==
    LET player == At(ps, p_idx)
        action == data.action
        amount == data.amount
        to_call == cb - player.bet
        call_amount == Min2(to_call, player.chips)
        total_bet == Min2(amount, player.chips + player.bet)
        additional == total_bet - player.bet
        p1 == CASE action = "fold" ->
                     [player EXCEPT !.in_hand = FALSE, !.status = "FOLD"]
                [] action = "call" ->
                     [player EXCEPT !.chips = @ - call_amount,
                                    !.bet = @ + call_amount]
                [] action \in {"bet", "raise"} ->
                     [player EXCEPT !.chips = @ - additional,
                                    !.bet = @ + additional]
                [] OTHER -> player
        is_raise == action \in {"bet", "raise"} /\ p1.bet > cb
        p2 == IF p1.chips = 0
              THEN [p1 EXCEPT !.is_all_in = TRUE, !.status = "ALL-IN"]
              ELSE p1
    IN  [players |-> [ps EXCEPT ![p_idx + 1] = p2],
         current_bet |-> IF is_raise THEN p1.bet ELSE cb,
         last_raise |-> IF is_raise THEN p1.bet - cb ELSE lr,
         is_raise |-> is_raise]

\* get_bot_action: the message the bot's policy produces
get_bot_action(player, to_call, stg, cc, p, cb, lr) ==
    LET vals == [i \in 1..Len(player.hand) |-> CardValue(player.hand[i])]
        hole_vals == SortedByKey(vals, vals, TRUE)
        is_pair == Cardinality(Range(vals)) = 1
        check_or_call == IF to_call = 0 THEN "check" ELSE "call"
        A(a) == [action |-> a, amount |-> 0]
        strength == evaluate_hand(player.hand \o cc)[1]
    IN  IF stg = "Pre-Flop"
        THEN IF (is_pair /\ hole_vals[1] >= 11) \/ Range(vals) = {14, 13}
             THEN [action |-> "raise",
                   amount |-> Min2(player.chips + player.bet,
                                   cb + Max2(lr, big_blind) * 2)]
             ELSE IF (is_pair /\ hole_vals[1] >= 8) \/ Range(vals) = {14, 12}
             THEN A(check_or_call)
             ELSE IF is_pair /\ to_call > 0 /\ 10 * to_call < player.chips
             THEN A("call")
             ELSE IF to_call > 0 THEN A("fold") ELSE A("check")
        ELSE IF to_call = 0
             THEN IF strength >= 4
                  THEN [action |-> "bet",
                        amount |-> Max2(big_blind,
                                        Min2(player.chips, IntThreeQuarters(p)))]
                  ELSE A("check")
             ELSE IF 10 * to_call > 3 * player.chips THEN A("fold")
             ELSE IF strength >= 5
             THEN [action |-> "raise",
                   amount |-> Min2(player.chips + player.bet,
                                   cb + Max2(lr, to_call) * 2)]
             ELSE IF strength >= 3 THEN A("call")
             ELSE A("fold")

\* Card.to_dict: (suit, rank, color); the empty dict {} is <<>>
CardToDict(c) ==
    <<CardSuit(c), c % 13, IF CardSuit(c) \in {1, 2} THEN "red" ELSE "black">>

\* Player.to_dict
to_dict(p, show_cards) ==
    [name |-> p.name, chips |-> p.chips, isBot |-> p.is_bot,
     hand |-> IF show_cards \/ ~p.is_bot
              THEN [i \in 1..Len(p.hand) |-> CardToDict(p.hand[i])]
              ELSE << <<>>, <<>> >>,
     bet |-> p.bet, inHand |-> p.in_hand, status |-> p.status]

\* Game.get_state
get_state(ps, cc, p, dp, cpi, stg, show_all_cards) ==
    [players |-> [i \in 1..Len(ps) |->
                    to_dict(ps[i], show_all_cards \/ ~ps[i].in_hand)],
     communityCards |-> [i \in 1..Len(cc) |-> CardToDict(cc[i])],
     pot |-> p, dealerPos |-> dp, currentPlayerIndex |-> cpi, stage |-> stg]

\* Game.emit_game_state: the message it emits
emit_game_state(ps, cc, p, dp, cpi, stg, show_all_cards) ==
    [event |-> "game_state_update", show_all_cards |-> show_all_cards,
     data |-> get_state(ps, cc, p, dp, cpi, stg, show_all_cards)]

\* socketio.emit('your_turn', ...): the message
your_turn(player, cb, lr) ==
    [event |-> "your_turn", show_all_cards |-> FALSE,
     data |-> [toCall |-> cb - player.bet, minRaise |-> lr,
               chips |-> player.chips]]

\* ------------------------------------------------------------------------
\* Construction: game = Game(); no background task yet
\* ------------------------------------------------------------------------
Init ==
    /\ players = <<>>
    /\ deck = <<>>
    /\ community_cards = <<>>
    /\ pot = 0
    /\ dealer_pos = -1
    /\ current_player_index = 0
    /\ current_bet = 0
    /\ last_raise = 0
    /\ stage = "Idle"
    /\ is_running = FALSE
    /\ pc = "none"
    /\ stage_name = "Idle"
    /\ action_starter_index = 0
    /\ players_in_hand = {}
    /\ action_result = FALSE
    /\ hands = 0
    /\ answers = 0
    /\ scan = <<>>
    /\ ranked = <<>>
    /\ emitted = <<>>

\* The background task yields at socketio.sleep and at event.wait; the
\* socket handlers run only while it stands at one of these places or does
\* not exist.
YieldPoints == {"none", "run", "post_blinds", "bot_sleep", "wait",
                "after_action", "intermission", "stopped"}

HumanSeats(ps) == {i \in Seats(ps) : ~At(ps, i).is_bot}

\* ------------------------------------------------------------------------
\* The socket handlers
\* ------------------------------------------------------------------------
\* handle_connect when a human seat exists: your_turn again if the current
\* seat is the human seat, then the state; self.players[current_player_index]
\* raises IndexError when the index is beyond the list, and nothing is emitted
ReconnectEmits(ps, cc, p, dp, cpi, stg, cb, lr) ==
    IF cpi >= Len(ps) THEN <<>>
    ELSE (IF \A h \in HumanSeats(ps) : cpi <= h /\ cpi \in HumanSeats(ps)
          THEN <<your_turn(At(ps, cpi), cb, lr)>> ELSE <<>>)
         \o <<emit_game_state(ps, cc, p, dp, cpi, stg, FALSE)>>

\* handle_connect, with start_game when it creates the table
handle_connect ==
    /\ pc \in YieldPoints
    /\ IF HumanSeats(players) = {}
       THEN LET ps == add_player(add_player(add_player(add_player(players,
                         "You", StartChips, FALSE),
                         "Bot Alice", StartChips, TRUE),
                         "Bot Bob", StartChips, TRUE),
                         "Bot Charlie", StartChips, TRUE)
            IN  /\ players' = ps
                /\ IF ~is_running
                   THEN /\ dealer_pos' \in 0..(Len(ps) - 1)
                        /\ pc' = "run"
                   ELSE UNCHANGED <<dealer_pos, pc>>
                /\ emitted' = <<emit_game_state(ps, community_cards, pot,
                                    dealer_pos', current_player_index, stage,
                                    FALSE)>>
       ELSE /\ UNCHANGED <<players, dealer_pos, pc>>
            /\ emitted' = ReconnectEmits(players, community_cards, pot,
                              dealer_pos, current_player_index, stage,
                              current_bet, last_raise)
    /\ UNCHANGED <<deck, community_cards, pot, current_player_index,
                   current_bet, last_raise, stage, is_running, stage_name,
                   action_starter_index, players_in_hand, action_result, hands, answers,
                   scan, ranked>>

\* an on_player_action that forgets the test of event.ready()
AwaitedSeats_any_event(ps) ==
    {i \in HumanSeats(ps) : At(ps, i).event # NoEvent}

\* the seats on_player_action may deliver to: not a bot, with an event that
\* exists and is not ready
AwaitedSeats(ps) ==
    {i \in HumanSeats(ps) : At(ps, i).event = WaitingEvent}

on_player_action(data) ==
    /\ pc \in YieldPoints
    /\ IF AwaitedSeats(players) # {}
       THEN LET i == CHOOSE k \in AwaitedSeats(players) :
                        \A m \in AwaitedSeats(players) : k <= m
            IN  /\ answers < MaxAnswers
                /\ players' = [players EXCEPT ![i + 1].event = SentEvent(data)]
                /\ answers' = answers + 1
       ELSE UNCHANGED <<players, answers>>
    /\ emitted' = <<>>
    /\ UNCHANGED <<deck, community_cards, pot, dealer_pos, current_player_index,
                   current_bet, last_raise, stage, is_running, pc, stage_name,
                   action_starter_index, players_in_hand, action_result, hands,
                   scan, ranked>>

\* ------------------------------------------------------------------------
\* The background task: Game.run
\* ------------------------------------------------------------------------
\* run, up to the call of play_hand
Run ==
    /\ pc = "run"
    /\ is_running' = TRUE
    /\ pc' = "play_hand"
    /\ emitted' = <<>>
    /\ UNCHANGED <<players, deck, community_cards, pot, dealer_pos,
                   current_player_index, current_bet, last_raise, stage,
                   stage_name, action_starter_index, players_in_hand,
                   action_result, hands, answers,
                   scan, ranked>>

\* a play_hand that keeps the seats with zero chips
WithChips_or_zero(ps) == Filter(ps, [i \in 1..Len(ps) |-> ps[i].chips >= 0])

\* play_hand: [p for p in self.players if p.chips > 0]
WithChips(ps) == Filter(ps, [i \in 1..Len(ps) |-> ps[i].chips > 0])

\* play_hand, up to its socketio.sleep(1)
PlayHand ==
    /\ pc = "play_hand"
    /\ LET ps == WithChips(players)
       IN  IF Len(ps) < 2
           THEN /\ players' = ps
                /\ pc' = "intermission"
                /\ UNCHANGED <<deck, community_cards, pot, current_bet,
                               dealer_pos, hands>>
           ELSE /\ hands < MaxHands
                /\ players' = [i \in 1..Len(ps) |-> reset_for_hand(ps[i])]
                /\ deck' \in Shuffles
                /\ community_cards' = <<>>
                /\ pot' = 0
                /\ current_bet' = 0
                /\ dealer_pos' = (dealer_pos + 1) % Len(ps)
                /\ hands' = hands + 1
                /\ pc' = "post_blinds"
    /\ emitted' = <<>>
    /\ UNCHANGED <<current_player_index, last_raise, stage, is_running,
                   stage_name, action_starter_index, players_in_hand,
                   action_result, answers, scan, ranked>>

\* play_hand: post_blinds(); deal_hole_cards(); and the call of
\* betting_round('Pre-Flop')
PostBlinds ==
    /\ pc = "post_blinds"
    /\ LET b == post_blinds(players, dealer_pos)
           d == deal_hole_cards(b.players, deck)
       IN  /\ players' = d[1]
           /\ deck' = d[2]
           /\ current_bet' = b.current_bet
           /\ last_raise' = b.last_raise
           /\ current_player_index' = b.current_player_index
    /\ stage_name' = "Pre-Flop"
    /\ pc' = "betting_round"
    /\ emitted' = <<>>
    /\ UNCHANGED <<community_cards, pot, dealer_pos, stage, is_running,
                   action_starter_index, players_in_hand, action_result, hands, answers,
                   scan, ranked>>

\* the cards_to_deal argument play_hand passes for each stage
CardsToDeal(s) == CASE s = "Flop" -> 3 [] s = "Turn" -> 1 [] s = "River" -> 1
                    [] OTHER -> 0

\* betting_round, from its first line to the while loop
BettingRound ==
    /\ pc = "betting_round"
    /\ stage' = stage_name
    /\ LET reset == stage_name # "Pre-Flop"
           ps == IF reset THEN collect_bets_players(players) ELSE players
           cb == IF reset THEN 0 ELSE current_bet
           cpi == IF reset THEN get_next_active_player(ps, dealer_pos)
                  ELSE current_player_index
           n == CardsToDeal(stage_name)
           burnt == IF n > 0 THEN deal(deck)[2] ELSE deck
           dc == DealCommunity(community_cards, burnt, n)
           players_with_option ==
               Cardinality({i \in Seats(ps) : Eligible(At(ps, i))})
       IN  /\ players' = ps
           /\ current_bet' = cb
           /\ last_raise' = IF reset THEN big_blind ELSE last_raise
           /\ current_player_index' = cpi
           /\ community_cards' = dc[1]
           /\ deck' = dc[2]
           /\ IF players_with_option < 2 /\ cb = 0
              THEN /\ pc' = "collect"
                   /\ UNCHANGED action_starter_index
              ELSE /\ pc' = "loop"
                   /\ action_starter_index' = cpi
    /\ emitted' = <<>>
    /\ UNCHANGED <<pot, dealer_pos, is_running, stage_name, players_in_hand,
                   action_result, hands, answers,
                   scan, ranked>>

\* the while loop of betting_round from its top to the request for an action:
\* the sleep of get_bot_action or the wait of wait_for_player_action
LoopTop ==
    /\ pc = "loop"
    /\ players_in_hand' = InHandSeats(players)
    /\ LET player == At(players, current_player_index)
           nxt == get_next_active_player(players, current_player_index)
       IN  IF Cardinality(InHandSeats(players)) <= 1
           THEN /\ pc' = "collect"
                /\ emitted' = <<>>
                /\ UNCHANGED <<players, current_player_index>>
           ELSE IF player.is_all_in \/ ~player.in_hand
           THEN /\ current_player_index' = nxt
                /\ pc' = IF nxt = action_starter_index THEN "collect" ELSE "loop"
                /\ emitted' = <<>>
                /\ UNCHANGED players
           ELSE IF player.is_bot
           THEN /\ pc' = "bot_sleep"
                /\ emitted' = <<emit_game_state(players, community_cards, pot,
                                    dealer_pos, current_player_index, stage,
                                    FALSE)>>
                /\ UNCHANGED <<players, current_player_index>>
           ELSE /\ players' = [players EXCEPT
                                 ![current_player_index + 1].event = WaitingEvent]
                /\ pc' = "wait"
                /\ emitted' = <<emit_game_state(players, community_cards, pot,
                                    dealer_pos, current_player_index, stage,
                                    FALSE),
                                your_turn(player, current_bet, last_raise)>>
                /\ UNCHANGED current_player_index
    /\ UNCHANGED <<deck, community_cards, pot, dealer_pos, current_bet,
                   last_raise, stage, is_running, stage_name,
                   action_starter_index, action_result, hands, answers,
                   scan, ranked>>

\* handle_player_action applied to the current seat, up to its sleep
Act(data) ==
    LET r == handle_player_action(players, current_player_index, data,
                                  current_bet, last_raise)
    IN  /\ players' = r.players
        /\ current_bet' = r.current_bet
        /\ last_raise' = r.last_raise
        /\ action_result' = r.is_raise
        /\ pc' = "after_action"
        /\ emitted' = <<emit_game_state(r.players, community_cards, pot, dealer_pos,
                                        current_player_index, stage, FALSE)>>
        /\ UNCHANGED <<deck, community_cards, pot, dealer_pos,
                       current_player_index, stage, is_running, stage_name,
                       action_starter_index, players_in_hand, hands, answers,
                   scan, ranked>>

\* get_bot_action after its sleep, and handle_player_action
BotAction ==
    /\ pc = "bot_sleep"
    /\ LET player == At(players, current_player_index)
       IN  Act(get_bot_action(player, current_bet - player.bet, stage,
                              community_cards, pot, current_bet, last_raise))

\* wait_for_player_action returns what was sent, and handle_player_action
HumanAction ==
    /\ pc = "wait"
    /\ LET ev == At(players, current_player_index).event
       IN  /\ Len(ev) = 2
           /\ Act(ev[2])

\* max(p.bet for p in players_in_hand), the list taken at the top of the loop
highest_bet(ps, pih) ==
    CHOOSE b \in {At(ps, i).bet : i \in pih} : \A i \in pih : At(ps, i).bet <= b

\* a betting_round that stops when the action is back at the starter, without
\* the test of the bets
bets_matched_untested(ps, pih) == TRUE

\* all(p.bet == highest_bet or not p.in_hand or p.is_all_in for p in players)
bets_matched(ps, pih) ==
    \A i \in Seats(ps) :
        \/ At(ps, i).bet = highest_bet(ps, pih)
        \/ ~At(ps, i).in_hand
        \/ At(ps, i).is_all_in

\* betting_round after handle_player_action: the rest of the loop body
AfterAction ==
    /\ pc = "after_action"
    /\ LET starter == IF action_result THEN current_player_index
                      ELSE action_starter_index
           nxt == get_next_active_player(players, current_player_index)
       IN  /\ action_starter_index' = starter
           /\ current_player_index' = nxt
           /\ pc' = IF nxt = starter /\ bets_matched(players, players_in_hand)
                    THEN "collect" ELSE "loop"
    /\ emitted' = <<>>
    /\ UNCHANGED <<players, deck, community_cards, pot, dealer_pos, current_bet,
                   last_raise, stage, is_running, stage_name, players_in_hand,
                   action_result, hands, answers,
                   scan, ranked>>

\* where play_hand goes when betting_round returns more_than_one
AfterRound(s, more_than_one) ==
    IF more_than_one
    THEN CASE s = "Pre-Flop" -> <<"betting_round", "Flop">>
           [] s = "Flop" -> <<"betting_round", "Turn">>
           [] s = "Turn" -> <<"betting_round", "River">>
           [] OTHER -> <<"showdown", s>>
    ELSE CASE s = "Flop" -> <<"intermission", s>>
           [] OTHER -> <<"award", s>>

\* the end of betting_round: collect_bets() and the return into play_hand
Collect ==
    /\ pc = "collect"
    /\ pot' = collect_bets_pot(players, pot)
    /\ players' = collect_bets_players(players)
    /\ LET to == AfterRound(stage_name, Cardinality(InHandSeats(players)) > 1)
       IN  /\ pc' = to[1]
           /\ stage_name' = to[2]
    /\ emitted' = <<>>
    /\ UNCHANGED <<deck, community_cards, dealer_pos, current_player_index,
                   current_bet, last_raise, stage, is_running,
                   action_starter_index, players_in_hand, action_result, hands, answers,
                   scan, ranked>>

\* award_pot_to_winner: the new players and pot
award_pot_to_winner(ps, p) ==
    LET contenders == InHandSeats(ps)
    IN  IF Cardinality(contenders) = 1
        THEN LET w == CHOOSE i \in contenders : TRUE
             IN  <<[ps EXCEPT ![w + 1].chips = @ + p], 0>>
        ELSE <<ps, p>>

Award ==
    /\ pc = "award"
    /\ LET a == award_pot_to_winner(players, pot)
       IN  /\ players' = a[1]
           /\ pot' = a[2]
    /\ pc' = "intermission"
    /\ emitted' = <<emit_game_state(players', community_cards, pot', dealer_pos,
                                    current_player_index, stage, FALSE)>>
    /\ UNCHANGED <<deck, community_cards, dealer_pos, current_player_index,
                   current_bet, last_raise, stage, is_running, stage_name,
                   action_starter_index, players_in_hand, action_result, hands, answers,
                   scan, ranked>>

\* showdown: p.hand_result of seat i, as (rank, cards)
hand_result(ps, cc, i) == evaluate_hand(At(ps, i).hand \o cc)

RECURSIVE WinnersFrom(_, _, _, _, _, _)
\* the for loop of showdown over the contenders from the k-th on; winners is
\* the list of seats, contenders the ascending list of the seats in hand
WinnersFrom(ps, cc, contenders, k, winners, best_rank) ==
    IF k > Len(contenders) THEN winners
    ELSE LET p == contenders[k]
             r == hand_result(ps, cc, p)
             c == _compare_hands(r[2], hand_result(ps, cc, winners[1])[2])
         IN  IF r[1] > best_rank
             THEN WinnersFrom(ps, cc, contenders, k + 1, <<p>>, r[1])
             ELSE IF r[1] = best_rank /\ c = 1
             THEN WinnersFrom(ps, cc, contenders, k + 1, <<p>>, best_rank)
             ELSE IF r[1] = best_rank /\ c = 0
             THEN WinnersFrom(ps, cc, contenders, k + 1, Append(winners, p), best_rank)
             ELSE WinnersFrom(ps, cc, contenders, k + 1, winners, best_rank)

\* contenders = [p for p in self.players if p.in_hand], as seats
Contenders(ps) ==
    LET idx == SelectIdx([i \in 1..Len(ps) |-> ps[i].in_hand], 1, Len(ps))
    IN  [k \in 1..Len(idx) |-> idx[k] - 1]

ShowdownWinners(ps, cc) == WinnersFrom(ps, cc, Contenders(ps), 1, <<>>, -1)

\* a showdown that pays every winner the pot, undivided
showdown_undivided(ps, cc, p) ==
    IF Len(Contenders(ps)) < 2 THEN award_pot_to_winner(ps, p)
    ELSE LET winners == ShowdownWinners(ps, cc)
         IN  <<[i \in 1..Len(ps) |->
                  IF (i - 1) \in Range(winners)
                  THEN [ps[i] EXCEPT !.chips = @ + p] ELSE ps[i]],
               0>>

\* showdown: the new players and pot
showdown(ps, cc, p) ==
    IF Len(Contenders(ps)) < 2 THEN award_pot_to_winner(ps, p)
    ELSE LET winners == ShowdownWinners(ps, cc)
             winnings == p \div Len(winners)
         IN  <<[i \in 1..Len(ps) |->
                  IF (i - 1) \in Range(winners)
                  THEN [ps[i] EXCEPT !.chips = @ + winnings] ELSE ps[i]],
               0>>

Showdown ==
    /\ pc = "showdown"
    /\ LET s == showdown(players, community_cards, pot)
       IN  /\ players' = s[1]
           /\ pot' = s[2]
    /\ pc' = "intermission"
    /\ emitted' = <<emit_game_state(players, community_cards, pot, dealer_pos,
                                    current_player_index, stage, TRUE),
                    emit_game_state(players', community_cards, pot', dealer_pos,
                                    current_player_index, stage, FALSE)>>
    /\ UNCHANGED <<deck, community_cards, dealer_pos, current_player_index,
                   current_bet, last_raise, stage, is_running, stage_name,
                   action_starter_index, players_in_hand, action_result, hands, answers,
                   scan, ranked>>

\* run after play_hand: the countdown, and the test that ends the loop
Intermission ==
    /\ pc = "intermission"
    /\ IF Cardinality({i \in Seats(players) : At(players, i).chips > 0}) < 2
       THEN /\ is_running' = FALSE
            /\ pc' = "stopped"
       ELSE /\ pc' = "play_hand"
            /\ UNCHANGED is_running
    /\ emitted' = <<>>
    /\ UNCHANGED <<players, deck, community_cards, pot, dealer_pos,
                   current_player_index, current_bet, last_raise, stage,
                   stage_name, action_starter_index, players_in_hand,
                   action_result, hands, answers,
                   scan, ranked>>

Next ==
    \/ handle_connect
    \/ \E data \in Messages : on_player_action(data)
    \/ Run
    \/ PlayHand
    \/ PostBlinds
    \/ BettingRound
    \/ LoopTop
    \/ BotAction
    \/ HumanAction
    \/ AfterAction
    \/ Collect
    \/ Award
    \/ Showdown
    \/ Intermission

Spec == Init /\ [][Next]_vars

\* ------------------------------------------------------------------------
\* The scheduler of eventlet runs the background task whenever its sleep is
\* over or the event it waits for has been sent: its steps are weakly fair.
\* Nothing obliges a client to connect or to send a message.
\* ------------------------------------------------------------------------
Task ==
    \/ Run
    \/ PlayHand
    \/ PostBlinds
    \/ BettingRound
    \/ LoopTop
    \/ BotAction
    \/ HumanAction
    \/ AfterAction
    \/ Collect
    \/ Award
    \/ Showdown
    \/ Intermission

Places == {"none", "run", "play_hand", "post_blinds", "betting_round", "loop",
           "bot_sleep", "wait", "after_action", "collect", "award", "showdown",
           "intermission", "stopped"}

\* the while loop of betting_round passes from seat to seat without finding
\* one to ask and without meeting its break: it is never left
Spinning ==
    /\ Cardinality(InHandSeats(players)) >= 2
    /\ ~Eligible(At(players, current_player_index))
    /\ get_next_active_player(players, current_player_index) = current_player_index
    /\ current_player_index # action_starter_index

\* ENABLED <<Task>>_pc read from the state: the task has a step that takes it
\* to another place. It waits while no message was sent to its event, and
\* play_hand starts no hand beyond MaxHands.
TaskReady ==
    \/ pc \in {"run", "post_blinds", "betting_round", "bot_sleep",
               "after_action", "collect", "award", "showdown", "intermission"}
    \/ pc = "play_hand"
         /\ (Cardinality({i \in 1..Len(players) : players[i].chips > 0}) < 2
             \/ hands < MaxHands)
    \/ pc = "loop" /\ ~Spinning
    \/ pc = "wait" /\ Len(At(players, current_player_index).event) = 2

\* <<Task>>_pc: while the task is ready no handler changes pc, so a step that
\* changes pc there is a step of the task
TaskMove == TaskReady /\ pc' \in Places

\* WF_pc(Task), with the enabling condition and the step written out
FairSpec == Spec /\ WF_pc(TaskMove)

\* ------------------------------------------------------------------------
\* get_next_active_player on its own: every table of 1 .. MaxSeats seats with
\* every combination of in_hand and is_all_in, called from every seat
\* ------------------------------------------------------------------------
ScanSeat(a, b) ==
    [Player("P", StartChips, TRUE) EXCEPT !.in_hand = a, !.is_all_in = b]

InitScan ==
    /\ \E n \in 1..MaxSeats :
           players \in [1..n -> {ScanSeat(a, b) : a \in BOOLEAN, b \in BOOLEAN}]
    /\ deck = <<>>
    /\ community_cards = <<>>
    /\ pot = 0
    /\ dealer_pos = 0
    /\ current_player_index = 0
    /\ current_bet = 0
    /\ last_raise = 0
    /\ stage = "Idle"
    /\ is_running = FALSE
    /\ pc = "none"
    /\ stage_name = "Idle"
    /\ action_starter_index = 0
    /\ players_in_hand = {}
    /\ action_result = FALSE
    /\ hands = 0
    /\ answers = 0
    /\ scan = <<>>
    /\ ranked = <<>>
    /\ emitted = <<>>

\* self.get_next_active_player(start_index): what it returned, and the
\* iterations of its loop
ScanCall(start_index) ==
    /\ scan' = [start_index |-> start_index,
                result |-> ScanFrom(players, start_index, 0, start_index)[1],
                iterations |-> ScanFrom(players, start_index, 0, start_index)[2]]
    /\ UNCHANGED <<players, deck, community_cards, pot, dealer_pos,
                   current_player_index, current_bet, last_raise, stage,
                   is_running, pc, stage_name, action_starter_index,
                   players_in_hand, action_result, hands, answers, ranked,
                   emitted>>

NextScan == \E start_index \in Seats(players) : ScanCall(start_index)

SpecScan == InitScan /\ [][NextScan]_vars

\* ------------------------------------------------------------------------
\* _calculate_hand_rank and _compare_hands on their own: every two 5-card
\* hands out of ten cards of the deck, which hold every category but the
\* royal flush: A 2 3 4 5 6 of spades, the other three 5s and the 6 of hearts
\* ------------------------------------------------------------------------
EvalDeck == <<Card(0, 12), Card(0, 0), Card(0, 1), Card(0, 2), Card(0, 3),
              Card(0, 4), Card(1, 3), Card(2, 3), Card(3, 3), Card(1, 4)>>

\* list(combo) for every combo of combinations(EvalDeck, 5)
EvalHands ==
    {[i \in 1..5 |-> EvalDeck[c[i]]] : c \in Range(Combinations(1, Len(EvalDeck), 5))}

InitEval ==
    /\ ranked \in {[a |-> a, b |-> b, done |-> FALSE,
                    rank_a |-> <<0, <<>>>>, rank_b |-> <<0, <<>>>>, cmp |-> 0] :
                   a \in EvalHands, b \in EvalHands}
    /\ players = <<>>
    /\ deck = <<>>
    /\ community_cards = <<>>
    /\ pot = 0
    /\ dealer_pos = -1
    /\ current_player_index = 0
    /\ current_bet = 0
    /\ last_raise = 0
    /\ stage = "Idle"
    /\ is_running = FALSE
    /\ pc = "none"
    /\ stage_name = "Idle"
    /\ action_starter_index = 0
    /\ players_in_hand = {}
    /\ action_result = FALSE
    /\ hands = 0
    /\ answers = 0
    /\ scan = <<>>
    /\ emitted = <<>>

\* _compare_hands of the card lists _calculate_hand_rank returned
CompareRanked(ra, rb) == _compare_hands(ra[2], rb[2])

\* _calculate_hand_rank(a), _calculate_hand_rank(b), and _compare_hands of
\* the two card lists they return
RankCall ==
    /\ ~ranked.done
    /\ ranked' = [ranked EXCEPT
                    !.done = TRUE,
                    !.rank_a = _calculate_hand_rank(ranked.a),
                    !.rank_b = _calculate_hand_rank(ranked.b),
                    !.cmp = CompareRanked(_calculate_hand_rank(ranked.a),
                                          _calculate_hand_rank(ranked.b))]
    /\ UNCHANGED <<players, deck, community_cards, pot, dealer_pos,
                   current_player_index, current_bet, last_raise, stage,
                   is_running, pc, stage_name, action_starter_index,
                   players_in_hand, action_result, hands, answers, scan,
                   emitted>>

NextEval == RankCall

SpecEval == InitEval /\ [][NextEval]_vars

\* ------------------------------------------------------------------------
\* The loop of run between two hands on its own: the four seats stand at the
\* end of a hand, the chips of the table divided among them in every way by
\* whole buy-ins, and the loop decides whether and with whom to go on
\* ------------------------------------------------------------------------
LoopNames == <<"You", "Bot Alice", "Bot Bob", "Bot Charlie">>

LoopTables ==
    {c \in [1..MaxSeats -> {k * StartChips : k \in 0..MaxSeats}] :
        SumSeq(c) = MaxSeats * StartChips}

InitLoop ==
    /\ \E c \in LoopTables :
           players = [i \in 1..MaxSeats |->
                        Player(LoopNames[i], c[i], LoopNames[i] # "You")]
    /\ deck = Shuffle(1)
    /\ community_cards = <<>>
    /\ pot = 0
    /\ dealer_pos \in 0..(MaxSeats - 1)
    /\ current_player_index = 0
    /\ current_bet = 0
    /\ last_raise = big_blind
    /\ stage = "Pre-Flop"
    /\ is_running = TRUE
    /\ pc = "intermission"
    /\ stage_name = "Pre-Flop"
    /\ action_starter_index = 0
    /\ players_in_hand = {}
    /\ action_result = FALSE
    /\ hands = 1
    /\ answers = 0
    /\ scan = <<>>
    /\ ranked = <<>>
    /\ emitted = <<>>

NextLoop == Intermission \/ PlayHand

SpecLoop == InitLoop /\ [][NextLoop]_vars

\* ------------------------------------------------------------------------
\* The claims
\* ------------------------------------------------------------------------
TotalChips(ps) == SumSeq([i \in 1..Len(ps) |-> ps[i].chips])

TotalBets(ps) == SumSeq([i \in 1..Len(ps) |-> ps[i].bet])

\* the places of the background task from the posting of the blinds to the
\* end of a betting round
HandPcs == {"post_blinds", "betting_round", "loop", "bot_sleep", "wait",
            "after_action", "collect"}

\* the places inside the while loop of betting_round
LoopPcs == {"loop", "bot_sleep", "wait", "after_action"}

\* C1: from the posting of the blinds to the payout, no step that leaves the
\* seats as they are (the blinds, a fold, check, call, bet or raise with any
\* amount, collect_bets) changes chips + bets + pot, so the sum stays what the
\* seated players held when the hand began; and collect_bets leaves every bet
\* at 0 and raises the pot by exactly the sum of the bets it found.
C1_ChipsConserved ==
    [][/\ (pc \in HandPcs /\ Len(players') = Len(players))
           => TotalChips(players') + TotalBets(players') + pot'
              = TotalChips(players) + TotalBets(players) + pot
       /\ pc = "collect"
           => /\ \A i \in 1..Len(players') : players'[i].bet = 0
              /\ pot' = pot + TotalBets(players)]_vars

\* C1 witness: the flop round is about to collect bets that were made on top
\* of a pot collected before, with a seat that has folded
C1_Witness ==
    /\ pc = "collect"
    /\ stage_name = "Flop"
    /\ pot > 0
    /\ TotalBets(players) > 0
    /\ \E i \in 1..Len(players) : ~players[i].in_hand

\* the action the seat whose turn it is is about to take
PendingAction ==
    IF pc = "bot_sleep"
    THEN LET player == At(players, current_player_index)
         IN  get_bot_action(player, current_bet - player.bet, stage,
                            community_cards, pot, current_bet, last_raise)
    ELSE IF pc = "wait" /\ Len(At(players, current_player_index).event) = 2
    THEN At(players, current_player_index).event[2]
    ELSE [action |-> "none", amount |-> 0]

\* C2: if every seat that is asked to act answers in the end, and from some
\* point on no seat bets or raises, a betting round that is in its loop
\* reaches its end, where it collects the bets.
C2_RoundTerminates ==
    (/\ []<>(pc # "wait")
     /\ <>[](PendingAction.action \notin {"bet", "raise"}))
    => ((pc \in LoopPcs) ~> (pc = "collect"))

\* the highest bet among the seats in hand
MaxBetInHand ==
    CHOOSE b \in {players[i].bet : i \in {k \in 1..Len(players) : players[k].in_hand}} :
        \A i \in 1..Len(players) : players[i].in_hand => players[i].bet <= b

\* C3: when betting_round stops with at least two seats in hand, at the
\* instant before collect_bets every seat in hand that is not all-in has a
\* bet equal to the highest bet among the seats in hand.
C3_NoUnmatchedClose ==
    (pc = "collect" /\ Cardinality({i \in 1..Len(players) : players[i].in_hand}) >= 2)
    => \A i \in 1..Len(players) :
           (players[i].in_hand /\ ~players[i].is_all_in)
           => players[i].bet = MaxBetInHand

\* C3 witness: a round that went through its loop stops on a matched bet
\* above zero, with a seat that folded and an earlier lower bet of a seat
\* still in hand having been raised to the match
C3_Witness ==
    /\ pc = "collect"
    /\ Cardinality({i \in 1..Len(players) : players[i].in_hand}) >= 2
    /\ \E i \in 1..Len(players) :
           /\ players[i].in_hand
           /\ ~players[i].is_all_in
           /\ players[i].bet > big_blind
    /\ \E i \in 1..Len(players) : ~players[i].in_hand /\ players[i].bet > 0

\* C4: whenever the engine requests an action, from a bot or from the human,
\* the seat is in hand, is not all-in and has chips; in a hand a seat in hand
\* with no chips is all-in.
C4_OnlyDeciders ==
    /\ pc \in {"bot_sleep", "wait"}
        => LET player == At(players, current_player_index)
           IN  player.in_hand /\ ~player.is_all_in /\ player.chips > 0
    /\ pc \in LoopPcs
        => \A i \in 1..Len(players) :
               (players[i].in_hand /\ players[i].chips = 0) => players[i].is_all_in

\* C4 witness: a bot that posted its last chips as a blind, and is not marked
\* all-in, is asked for its action
C4_Witness ==
    /\ pc = "bot_sleep"
    /\ stage_name = "Pre-Flop"
    /\ At(players, current_player_index).chips = 0
    /\ At(players, current_player_index).bet > 0
    /\ ~At(players, current_player_index).is_all_in

\* C5: every player's chips are >= 0 in every reachable state.
C5_ChipsNonNegative == \A i \in 1..Len(players) : players[i].chips >= 0

\* C5 witness: a showdown has paid out a pot below zero
C5_Witness ==
    /\ pc = "intermission"
    /\ pot = 0
    /\ \E i \in 1..Len(players) : players[i].in_hand /\ players[i].chips < 0

\* C6: the pot and every player's bet are >= 0 in every reachable state,
\* whatever amounts the player_action messages carry.
C6_PotAndBetsNonNegative ==
    /\ pot >= 0
    /\ \A i \in 1..Len(players) : players[i].bet >= 0

\* C6 witness: collect_bets has folded a bet below zero into the pot
C6_Witness ==
    /\ pc = "betting_round"
    /\ pot < 0
    /\ \A i \in 1..Len(players) : players[i].bet = 0

\* the seats with in_hand and not is_all_in, read from the fields
ScanEligible == {i \in Seats(players) : players[i + 1].in_hand /\ ~players[i + 1].is_all_in}

\* the seats passed going from seat a to seat b in circular order, b included:
\* a full circle when b = a
ScanDistance(a, b) == ((b - a - 1) % Len(players)) + 1

\* C7: get_next_active_player(start_index) returns the first seat strictly
\* after start_index in circular order that is in hand and not all-in
\* (start_index itself when it is the only one), never a folded or all-in
\* seat when there is an eligible one, start_index when there is none, and
\* runs at most seats + 1 iterations.
C7_NextActiveSeat ==
    scan # <<>> =>
        /\ scan.iterations <= Len(players) + 1
        /\ IF ScanEligible = {}
           THEN scan.result = scan.start_index
           ELSE /\ scan.result \in ScanEligible
                /\ \A k \in 1..(ScanDistance(scan.start_index, scan.result) - 1) :
                       ((scan.start_index + k) % Len(players)) \notin ScanEligible

\* C7 witness: the call wrapped round the table past a folded and an all-in
\* seat and came back to the seat it started from, the only eligible one
C7_Witness ==
    /\ scan # <<>>
    /\ Len(players) = MaxSeats
    /\ ScanEligible = {scan.start_index}
    /\ scan.result = scan.start_index
    /\ \E i \in 1..Len(players) : ~players[i].in_hand
    /\ \E i \in 1..Len(players) : players[i].in_hand /\ players[i].is_all_in

\* the seats in hand, read from the fields
StillIn(ps) == {i \in 0..(Len(ps) - 1) : ps[i + 1].in_hand}

\* C8: when a betting round ends with exactly one seat in hand the hand goes
\* straight to the award (no further round, card, request or showdown), the
\* award adds the whole pot to that seat's chips and leaves the pot at 0, and
\* the showdown is entered only from a river round that ended with at least
\* two contenders.
C8_ShortCircuitAward ==
    [][/\ (pc = "collect" /\ Cardinality(StillIn(players)) = 1) => pc' = "award"
       /\ pc = "award"
           => /\ Cardinality(StillIn(players)) = 1
              /\ \A i \in StillIn(players) :
                     players'[i + 1].chips = players[i + 1].chips + pot
              /\ pot' = 0
              /\ pc' = "intermission"
       /\ (pc # "showdown" /\ pc' = "showdown")
           => /\ stage_name = "River"
              /\ Cardinality(StillIn(players)) >= 2]_vars

\* C8 witness: the flop round ended with one contender and the hand is over
\* with the pot unpaid
C8_Witness ==
    /\ pc = "intermission"
    /\ stage_name = "Flop"
    /\ Cardinality(StillIn(players)) = 1
    /\ pot > 0

\* the contenders whose evaluated hand is maximal: by category, then by
\* _compare_hands
CoWinners(ps, cc) ==
    {i \in StillIn(ps) :
        \A j \in StillIn(ps) :
            LET ri == evaluate_hand(ps[i + 1].hand \o cc)
                rj == evaluate_hand(ps[j + 1].hand \o cc)
            IN  \/ ri[1] > rj[1]
                \/ ri[1] = rj[1] /\ _compare_hands(ri[2], rj[2]) >= 0}

\* C9: the showdown of pot P among the k co-winners adds floor(P / k) to the
\* chips of each co-winner, changes no other player's chips and leaves the
\* pot at 0, so that P mod k chips leave play.
C9_ShowdownPayout ==
    [][(pc = "showdown" /\ Cardinality(StillIn(players)) >= 2)
       => LET W == CoWinners(players, community_cards)
              k == Cardinality(W)
          IN  /\ k >= 1
              /\ Len(players') = Len(players)
              /\ \A i \in 0..(Len(players) - 1) :
                     players'[i + 1].chips
                     = players[i + 1].chips + (IF i \in W THEN pot \div k ELSE 0)
              /\ pot' = 0
              /\ TotalChips(players') = TotalChips(players) + pot - (pot % k)]_vars

\* C9 witness: a showdown has split an odd pot between two co-winners, and the
\* odd chip has left play
C9_Witness ==
    /\ pc = "intermission"
    /\ stage_name = "River"
    /\ pot = 0
    /\ Cardinality(StillIn(players)) >= 2
    /\ Cardinality(CoWinners(players, community_cards)) = 2
    /\ TotalChips(players) % 2 = 1

\* the human seat is inside wait_for_player_action and nothing has been sent
\* to its event yet
OutstandingWait ==
    /\ pc = "wait"
    /\ ~At(players, current_player_index).is_bot
    /\ Len(At(players, current_player_index).event) = 1

\* C10: a player_action message changes state only when a wait is outstanding
\* and unfulfilled, and then it changes nothing but the event of the waiting
\* seat, which receives the message; delivered at any other moment (no wait,
\* or a wait that already has its message) it changes nothing; and a wait
\* ends only with the one message that was delivered to it.
C10_ExactlyOnce ==
    [][/\ \A data \in Messages :
              on_player_action(data)
              => \/ /\ OutstandingWait
                    /\ players' = [players EXCEPT
                                     ![current_player_index + 1].event = <<"sent", data>>]
                    /\ UNCHANGED <<deck, community_cards, pot, dealer_pos,
                                   current_player_index, current_bet, last_raise,
                                   stage, is_running, pc, stage_name,
                                   action_starter_index, players_in_hand,
                                   action_result, hands>>
                 \/ /\ ~OutstandingWait
                    /\ UNCHANGED <<players, deck, community_cards, pot,
                                   dealer_pos, current_player_index, current_bet,
                                   last_raise, stage, is_running, pc, stage_name,
                                   action_starter_index, players_in_hand,
                                   action_result, hands>>
       /\ (pc = "wait" /\ ~OutstandingWait)
           => [i \in 1..Len(players) |-> players'[i].event]
              = [i \in 1..Len(players) |-> players[i].event]
       /\ (pc = "wait" /\ pc' # "wait")
           => /\ ~OutstandingWait
              /\ players' = handle_player_action(players, current_player_index,
                               At(players, current_player_index).event[2],
                               current_bet, last_raise).players]_vars

\* C10 witness: the wait has received its message, which is a raise, and the
\* engine has not taken it up yet
C10_Witness ==
    /\ pc = "wait"
    /\ ~OutstandingWait
    /\ At(players, current_player_index).event[2].action = "raise"
    /\ answers >= 2

\* the names at the table, seat by seat
SeatNames(ps) == [i \in 1..Len(ps) |-> ps[i].name]

\* C11: once the table exists, the list of seats changes only by the hand
\* loop's removal of the seats without chips at the start of a hand; nothing
\* else, a connection included, adds, removes or reorders a seat.
C11_SeatsFixed ==
    [][(Len(players) > 0 /\ SeatNames(players') # SeatNames(players))
       => pc = "play_hand"]_vars

\* C11 witness: a hand is being played at a table where "You" was seated
\* again behind the bots
C11_Witness ==
    /\ pc \in HandPcs
    /\ Len(players) > 1
    /\ players[Len(players)].name = "You"

\* C12: a your_turn message is emitted only into a state where the engine is
\* parked in the wait of the human seat and that wait has no message yet.
C12_YourTurnOnlyAwaited ==
    \A i \in 1..Len(emitted) :
        emitted[i].event = "your_turn" => OutstandingWait

\* C12 witness: a connection re-delivered your_turn although the action of
\* the human seat was already taken up by the engine
C12_Witness ==
    /\ pc = "after_action"
    /\ Len(emitted) = 2
    /\ emitted[1].event = "your_turn"

\* the seats of a snapshot that are bots and show a card
ShownBots(data) ==
    {j \in 1..Len(data.players) :
        /\ data.players[j].isBot
        /\ \E k \in 1..Len(data.players[j].hand) :
               data.players[j].hand[k] # <<>>}

\* C13: a game_state_update emitted without show_all_cards shows no hole card
\* of a bot seat, folded or not: each is an empty placeholder.
C13_BotCardsRedacted ==
    \A i \in 1..Len(emitted) :
        (emitted[i].event = "game_state_update" /\ ~emitted[i].show_all_cards)
        => ShownBots(emitted[i].data) = {}

\* C13 witness: a snapshot outside showdown that shows the cards of a bot
\* that has folded
C13_Witness ==
    \E i \in 1..Len(emitted) :
        /\ emitted[i].event = "game_state_update"
        /\ ~emitted[i].show_all_cards
        /\ \E j \in ShownBots(emitted[i].data) :
               /\ ~emitted[i].data.players[j].inHand
               /\ emitted[i].data.players[j].status = "FOLD"

\* the places of one hand, from the new deck to the end of the payout
DeckPcs == HandPcs \cup {"award", "showdown", "intermission"}

\* the cards removed from the deck of the current hand
Drawn == 52 - Len(deck)

\* in how many places card c is: hole cards, community cards and deck
Holders(c) ==
    Cardinality({ik \in {<<i, k>> : i \in 1..Len(players), k \in 1..2} :
                    /\ ik[2] <= Len(players[ik[1]].hand)
                    /\ players[ik[1]].hand[ik[2]] = c})
    + Cardinality({k \in 1..Len(community_cards) : community_cards[k] = c})
    + Cardinality({k \in 1..Len(deck) : deck[k] = c})

\* deal never returned None, and every card of the deck is in one place
DealtOnce ==
    /\ \A c \in Range(NewDeckCards) : Holders(c) <= 1
    /\ Holders(None) = 0

\* C14: in a hand at a table of at most 4 seats the deck loses at most
\* 2 x seats + 8 <= 16 cards (two hole cards per seat, five community cards
\* and the three cards burnt before flop, turn and river), so deal never
\* returns None and no card is dealt twice.
C14_DrawBound ==
    (pc \in DeckPcs /\ hands > 0)
    => /\ Drawn <= 2 * Len(players) + 8
       /\ 2 * Len(players) + 8 <= 16
       /\ DealtOnce

\* C14 as stated: at most 2 x seats + 5 <= 13 cards leave the deck
C14_DrawBoundAsStated ==
    (pc \in DeckPcs /\ hands > 0)
    => /\ Drawn <= 2 * Len(players) + 5
       /\ 2 * Len(players) + 5 <= 13
       /\ DealtOnce

\* C14 witness: four seats were dealt in and the river is on the table:
\* 8 hole cards, 5 community cards, 3 burnt
C14_Witness ==
    /\ pc \in DeckPcs
    /\ Len(players) = 4
    /\ \A i \in 1..4 : Len(players[i].hand) = 2
    /\ Len(community_cards) = 5
    /\ Drawn = 16

\* ------------------------------------------------------------------------
\* The standard ranking of 5-card poker hands, written from the rules of the
\* game: the category of a hand and the order of two hands of one category
\* ------------------------------------------------------------------------
StdValues(h) == {CardValue(h[i]) : i \in 1..5}

StdCount(h, v) == Cardinality({i \in 1..5 : CardValue(h[i]) = v})

StdFlush(h) == \A i \in 1..5 : CardSuit(h[i]) = CardSuit(h[1])

StdWheel(h) == StdValues(h) = {14, 2, 3, 4, 5}

StdStraight(h) ==
    /\ Cardinality(StdValues(h)) = 5
    /\ \/ StdWheel(h)
       \/ \A v \in StdValues(h) : \A w \in StdValues(h) : v - w <= 4

\* the ranks that occur n times
StdGroups(h, n) == {v \in StdValues(h) : StdCount(h, v) = n}

StdCategory(h) ==
    IF StdStraight(h) /\ StdFlush(h)
    THEN (IF StdValues(h) = 10..14 THEN 10 ELSE 9)
    ELSE IF StdGroups(h, 4) # {} THEN 8
    ELSE IF StdGroups(h, 3) # {} /\ StdGroups(h, 2) # {} THEN 7
    ELSE IF StdFlush(h) THEN 6
    ELSE IF StdStraight(h) THEN 5
    ELSE IF StdGroups(h, 3) # {} THEN 4
    ELSE IF Cardinality(StdGroups(h, 2)) = 2 THEN 3
    ELSE IF StdGroups(h, 2) # {} THEN 2
    ELSE 1

\* the ace of a wheel counts as 1
StdWeight(h, v) == IF StdWheel(h) /\ v = 14 THEN 1 ELSE v

\* rank v decides before rank w: the larger group first, then the higher rank
StdBefore(h, v, w) ==
    \/ StdCount(h, v) > StdCount(h, w)
    \/ StdCount(h, v) = StdCount(h, w) /\ StdWeight(h, v) > StdWeight(h, w)

\* the cards of the ranks that decide before rank v
StdCardsBefore(h, v) ==
    Cardinality({i \in 1..5 : StdBefore(h, CardValue(h[i]), v)})

\* the ranks of the hand in deciding order, one entry per card
StdTieBreak(h) ==
    [k \in 1..5 |->
        CHOOSE v \in StdValues(h) :
            /\ StdCardsBefore(h, v) < k
            /\ k <= StdCardsBefore(h, v) + StdCount(h, v)]

\* 1, 0 or -1: the order of two hands of one category
StdCompare(a, b) ==
    LET ta == [k \in 1..5 |-> StdWeight(a, StdTieBreak(a)[k])]
        tb == [k \in 1..5 |-> StdWeight(b, StdTieBreak(b)[k])]
        d == {k \in 1..5 : ta[k] # tb[k]}
    IN  IF d = {} THEN 0
        ELSE IF \E k \in d : ta[k] > tb[k] /\ \A j \in d : k <= j THEN 1
        ELSE -1

ValuesOf(cards) == [i \in 1..Len(cards) |-> CardValue(cards[i])]

\* the hand holds a pair, two pairs, trips, a full house or quads
HasGroup(h) == Cardinality(StdValues(h)) < 5

\* C15: for a hand with a repeated rank the returned card list has the quads,
\* the trips or the pairs before the kickers (full house: trips then pair; two
\* pair: higher pair, lower pair, kicker), and _compare_hands of two such
\* hands of equal category agrees with the standard order of the two hands.
C15_GroupsFirst ==
    ranked.done
    => /\ HasGroup(ranked.a) => ValuesOf(ranked.rank_a[2]) = StdTieBreak(ranked.a)
       /\ HasGroup(ranked.b) => ValuesOf(ranked.rank_b[2]) = StdTieBreak(ranked.b)
       /\ (HasGroup(ranked.a) /\ HasGroup(ranked.b)
              /\ ranked.rank_a[1] = ranked.rank_b[1])
          => ranked.cmp = StdCompare(ranked.a, ranked.b)

\* C15 witness: a pair of sixes is compared with a pair of fives that has an
\* ace, and loses
C15_Witness ==
    /\ ranked.done
    /\ ranked.rank_a[1] = 2 /\ StdGroups(ranked.a, 2) = {6}
    /\ ranked.rank_b[1] = 2 /\ StdGroups(ranked.b, 2) = {5}
    /\ 14 \in StdValues(ranked.b)
    /\ ranked.cmp = -1

\* A-2-3-4-5 of more than one suit
MixedWheel(h) == StdWheel(h) /\ ~StdFlush(h)

\* C16: A-2-3-4-5 of mixed suits is category 5, and compared with any
\* straight it ties with another wheel and loses to every other straight.
C16_WheelLow ==
    (ranked.done /\ MixedWheel(ranked.a))
    => /\ ranked.rank_a[1] = 5
       /\ StdCategory(ranked.b) = 5
          => ranked.cmp = (IF StdWheel(ranked.b) THEN 0 ELSE -1)

\* C16 witness: a wheel of mixed suits is compared with a six-high straight
\* of mixed suits, and wins
C16_Witness ==
    /\ ranked.done
    /\ MixedWheel(ranked.a)
    /\ StdValues(ranked.b) = 2..6 /\ ~StdFlush(ranked.b)
    /\ ranked.rank_b[1] = 5
    /\ ranked.cmp = 1

\* C17: the category returned for a hand of five distinct cards is its
\* standard category: 10 only for the suited T-J-Q-K-A, 9 for every other
\* straight flush, the suited A-2-3-4-5 included.
C17_StandardCategory ==
    ranked.done
    => /\ ranked.rank_a[1] = StdCategory(ranked.a)
       /\ ranked.rank_b[1] = StdCategory(ranked.b)

\* C17 witness: the suited A-2-3-4-5 was given category 10
C17_Witness ==
    /\ ranked.done
    /\ StdWheel(ranked.a) /\ StdFlush(ranked.a)
    /\ ranked.rank_a[1] = 10

\* C18: the step that starts a hand removes exactly the seats without chips,
\* keeping the others in their order, and goes on to the blinds only if at
\* least two seats remain; the step that ends the intermission starts
\* another hand if at least two seats have chips and otherwise stops the
\* loop with is_running false.
C18_EliminationAndStop ==
    [][/\ (pc = "play_hand" /\ pc' # "play_hand")
          => /\ SeatNames(players')
                = SeatNames(SelectSeq(players, LAMBDA p : p.chips > 0))
             /\ \A i \in 1..Len(players') : players'[i].chips > 0
             /\ IF Len(players') >= 2
                THEN pc' = "post_blinds" /\ deck' \in Shuffles
                ELSE pc' = "intermission" /\ UNCHANGED <<deck, pot, hands>>
       /\ (pc = "intermission" /\ pc' # "intermission")
          => IF Len(SelectSeq(players, LAMBDA p : p.chips > 0)) >= 2
             THEN pc' = "play_hand" /\ is_running' = is_running /\ is_running
             ELSE pc' = "stopped" /\ ~is_running']_vars

\* C18 witness: a hand has started with two of the four seats, the two
\* without chips removed
C18_Witness ==
    /\ pc = "post_blinds"
    /\ is_running
    /\ SeatNames(players) = <<"You", "Bot Bob">>
    /\ \A i \in 1..2 : players[i].chips > 0

\* C18 witness of the stop: the loop has ended with one seat holding chips
C18_Stopped ==
    /\ pc = "stopped"
    /\ ~is_running
    /\ Len(SelectSeq(players, LAMBDA p : p.chips > 0)) < 2

\* the community cards that belong to a stage
BoardOf(stg) ==
    CASE stg \in {"Idle", "Pre-Flop"} -> 0
      [] stg = "Flop" -> 3
      [] stg = "Turn" -> 4
      [] stg \in {"River", "Showdown"} -> 5
      [] OTHER -> -1

\* the stage that follows a stage within a hand
StageAfter(stg) ==
    CASE stg = "Pre-Flop" -> "Flop"
      [] stg = "Flop" -> "Turn"
      [] stg = "Turn" -> "River"
      [] stg = "River" -> "Showdown"
      [] OTHER -> "Pre-Flop"

\* C19: while the table is running, every emitted snapshot and every moment
\* a seat is asked to act shows the number of community cards of its stage
\* (0 before the flop, 3, 4, 5 on flop, turn, river and showdown), the
\* showdown snapshot reports the stage Showdown, and the stage changes only to
\* the next stage of the hand or to Pre-Flop of a new hand.
C19_StageAndBoard ==
    [][/\ is_running'
          => /\ \A i \in 1..Len(emitted') :
                    emitted'[i].event = "game_state_update"
                    => /\ Len(emitted'[i].data.communityCards)
                           = BoardOf(emitted'[i].data.stage)
                       /\ emitted'[i].show_all_cards
                          => emitted'[i].data.stage = "Showdown"
             /\ pc' \in {"bot_sleep", "wait"}
                => Len(community_cards') = BoardOf(stage')
       /\ stage' # stage => stage' \in {StageAfter(stage), "Pre-Flop"}]_vars

\* C19 witness: the snapshot of the showdown, all cards shown, reports the
\* stage River
C19_Witness ==
    /\ is_running
    /\ Len(emitted) = 2
    /\ emitted[1].show_all_cards
    /\ emitted[1].data.stage = "River"
    /\ Len(emitted[1].data.communityCards) = 5

\* C19 second witness: a snapshot sent while a new hand starts reports the
\* last stage of the hand before with an empty board
C19_StaleStage ==
    /\ is_running
    /\ pc = "post_blinds"
    /\ Len(emitted) > 0
    /\ emitted[Len(emitted)].data.stage \in {"Flop", "Turn", "River"}
    /\ emitted[Len(emitted)].data.communityCards = <<>>

\* C20: no seat's bet of the round is above the bet level of the round, after
\* the blinds, short or not, and after a call, a bet or a raise of any
\* amount; so the toCall of a your_turn message is never negative.
C20_BetWithinLevel ==
    /\ \A i \in 1..Len(players) : players[i].bet <= current_bet
    /\ \A i \in 1..Len(emitted) :
           emitted[i].event = "your_turn" => emitted[i].data.toCall >= 0

\* C20 witness: in a round a seat asked for more than it had: it is all-in
\* with its bet at the level of the round, above the big blind, and another
\* seat still has to answer
C20_Witness ==
    /\ pc \in LoopPcs
    /\ current_bet > big_blind
    /\ \E i \in 1..Len(players) :
           /\ players[i].is_all_in
           /\ players[i].bet = current_bet
    /\ \E i \in 1..Len(players) :
           /\ Eligible(players[i])
           /\ players[i].bet < current_bet

\* C20 second witness: a blind was posted short, by a seat with fewer chips
\* than the blind
C20_ShortBlind ==
    /\ pc = "betting_round"
    /\ stage_name = "Pre-Flop"
    /\ \E i \in 1..Len(players) :
           players[i].chips = 0 /\ players[i].bet \in 1..(big_blind - 1)

====
